---- MODULE Spec2Model ----
(***************************************************************************)
(* A state-machine model of GunGamewithDots.py: the frame loop Game.run,   *)
(* the event handlers, Player, Camera, TileMap, spawn_wave and shoot.      *)
(*                                                                         *)
(* Positions and velocities are IEEE-754 doubles, as Python floats and     *)
(* Vector2 components are; pygame.Rect values are whole pixels, as in      *)
(* pygame.  The player's position, velocity and rectangle are computed.    *)
(* The camera offset (read by the drawing code and by the mouse position,  *)
(* whose effect is an input) and the positions of enemies, bullets and     *)
(* particles are not state of the model: every rectangle test that         *)
(* involves one of them (enemy/player, bullet/enemy, bullet/wall) is an    *)
(* input of the frame, drawn from a bounded set, and so are the random     *)
(* draws of spawn_wave.                                                    *)
(***************************************************************************)
EXTENDS Integers, Sequences, FiniteSets, TLC

VARIABLES
    map,          \* TileMap: [w, h, grid, wall_rects]
    player,       \* Player fields
    camera,       \* Camera: [shake_frames, shake_mag]
    enemies,      \* Game.enemies, in group order: Seq of [tier, hp]
    bullets,      \* Game.bullets, in group order: Seq of [life]
    particles,    \* Game.particles as a bag: remaining life -> count
    wave, score, paused, game_over,
    fullscreen,   \* the local of Game.run
    frames,       \* history: frames run so far
    events,       \* history: input events handled so far
    credit,       \* history: sum of 10 * tier over the enemies removed so far
    log           \* history: what the last handler did

vars == <<map, player, camera, enemies, bullets, particles, wave, score,
          paused, game_over, fullscreen, frames, events, credit, log>>

------------------------------------------------------------------------------
(* Bounds of the model *)

MaxFrames == 1       \* frames explored by Spec
MaxEvents == 3       \* input events explored by Spec
MaxWall == 1         \* bullets (first in group order) a frame's wall input may name
NearEnemies == 2     \* enemies (first in group order) the frame's overlap inputs may name
MaxOv == 3           \* bullets (first in group order) the frame's overlap inputs may name

------------------------------------------------------------------------------
(* Config, lines 31-34 *)

SCREEN_W == 1280
SCREEN_H == 720
FPS == 60
TILE == 48
MAP_W == 48
MAP_H == 30

Max(a, b) == IF a >= b THEN a ELSE b
Min(a, b) == IF a <= b THEN a ELSE b

clamp(v, a, b) == Max(a, Min(b, v))

------------------------------------------------------------------------------
(* Python floats and pygame.math.Vector2 components are IEEE-754 doubles.   *)
(* A double is [s, e, m]: the value s * m * 2^e with s in {1, -1} and m a   *)
(* natural number of exactly 53 bits, held as limbs of 14 bits, least       *)
(* significant first; zero is [s |-> 1, e |-> 0, m |-> <<>>].  Every         *)
(* operation computes the exact result and rounds it to 53 bits, ties to    *)
(* even, as the hardware does; the exponent is not bounded (no value of the *)
(* program comes near the overflow or the subnormal range).                 *)

LIMB == 2 ^ 14

Limb(a, i) == IF i <= Len(a) THEN a[i] ELSE 0

RECURSIVE BTrim(_)
BTrim(a) == IF a # <<>> /\ a[Len(a)] = 0 THEN BTrim(SubSeq(a, 1, Len(a) - 1)) ELSE a

RECURSIVE BOfInt(_)
BOfInt(n) == IF n = 0 THEN <<>> ELSE <<n % LIMB>> \o BOfInt(n \div LIMB)

RECURSIVE BToInt(_)
BToInt(a) == IF a = <<>> THEN 0 ELSE a[1] + LIMB * BToInt(Tail(a))

RECURSIVE BAddC(_, _, _, _)
BAddC(a, b, i, c) ==
    IF i > Len(a) /\ i > Len(b) THEN (IF c = 0 THEN <<>> ELSE <<c>>)
    ELSE LET t == Limb(a, i) + Limb(b, i) + c
         IN  <<t % LIMB>> \o BAddC(a, b, i + 1, t \div LIMB)

BAdd(a, b) == BAddC(a, b, 1, 0)

\* a - b for a >= b
RECURSIVE BSubC(_, _, _, _)
BSubC(a, b, i, c) ==
    IF i > Len(a) THEN <<>>
    ELSE LET t == a[i] - Limb(b, i) - c
         IN  IF t < 0 THEN <<t + LIMB>> \o BSubC(a, b, i + 1, 1)
             ELSE <<t>> \o BSubC(a, b, i + 1, 0)

BSub(a, b) == BTrim(BSubC(a, b, 1, 0))

RECURSIVE BCmpAt(_, _, _)
BCmpAt(a, b, i) ==
    IF i = 0 THEN 0
    ELSE IF a[i] > b[i] THEN 1
    ELSE IF a[i] < b[i] THEN -1
    ELSE BCmpAt(a, b, i - 1)

\* 1, 0, -1 as a > b, a = b, a < b
BCmp(a, b) ==
    IF Len(a) # Len(b) THEN (IF Len(a) > Len(b) THEN 1 ELSE -1)
    ELSE BCmpAt(a, b, Len(a))

RECURSIVE BCol(_, _, _, _)
BCol(a, b, k, i) ==
    IF i > Len(a) THEN 0
    ELSE (IF k + 1 - i >= 1 /\ k + 1 - i <= Len(b) THEN a[i] * b[k + 1 - i] ELSE 0)
         + BCol(a, b, k, i + 1)

RECURSIVE BMulC(_, _, _, _)
BMulC(a, b, k, c) ==
    IF k > Len(a) + Len(b) THEN <<>>
    ELSE LET t == BCol(a, b, k, 1) + c
         IN  <<t % LIMB>> \o BMulC(a, b, k + 1, t \div LIMB)

\* a * b for a, b of at most four limbs
BMul(a, b) == BTrim(BMulC(a, b, 1, 0))

RECURSIVE BScaleC(_, _, _, _)
BScaleC(a, f, i, c) ==
    IF i > Len(a) THEN (IF c = 0 THEN <<>> ELSE <<c>>)
    ELSE LET t == a[i] * f + c
         IN  <<t % LIMB>> \o BScaleC(a, f, i + 1, t \div LIMB)

\* a * 2^k
BShl(a, k) ==
    IF a = <<>> THEN <<>>
    ELSE [i \in 1 .. k \div 14 |-> 0] \o BScaleC(a, 2 ^ (k % 14), 1, 0)

\* a \div 2^k
BShr(a, k) ==
    LET q == k \div 14
        f == 2 ^ (k % 14)
        g == 2 ^ (14 - (k % 14))
    IN  IF q >= Len(a) THEN <<>>
        ELSE BTrim([i \in 1 .. Len(a) - q |->
                       (a[i + q] \div f) + (Limb(a, i + q + 1) % f) * g])

RECURSIVE BitLenInt(_)
BitLenInt(n) == IF n = 0 THEN 0 ELSE 1 + BitLenInt(n \div 2)

BBitLen(a) == IF a = <<>> THEN 0 ELSE 14 * (Len(a) - 1) + BitLenInt(a[Len(a)])

\* bit k of a (bit 0 is the lowest)
BBit(a, k) == (Limb(a, k \div 14 + 1) \div 2 ^ (k % 14)) % 2

\* a % 2^k # 0
BLowBits(a, k) ==
    \/ \E i \in 1 .. Min(k \div 14, Len(a)) : a[i] # 0
    \/ Limb(a, k \div 14 + 1) % 2 ^ (k % 14) # 0

\* (a \div d, a % d) for 0 < d < LIMB, from the top limb down
RECURSIVE BDivSmall(_, _, _, _)
BDivSmall(a, d, i, r) ==
    IF i = 0 THEN <<<<>>, r>>
    ELSE LET t == r * LIMB + a[i]
             rest == BDivSmall(a, d, i - 1, t % d)
         IN  <<Append(rest[1], t \div d), rest[2]>>

FZero == [s |-> 1, e |-> 0, m |-> <<>>]

\* s * n * 2^e rounded to a double: the top 53 bits of n, one more when
\* the bits cut off are above half a unit, or are half a unit and the kept
\* bits are odd
FRound(s, e, n) ==
    LET Kept(q1, k) ==
            IF BBitLen(q1) > 53 THEN [s |-> s, e |-> e + k + 1, m |-> BShr(q1, 1)]
            ELSE [s |-> s, e |-> e + k, m |-> q1]
        Cut(q, k) ==
            Kept(IF BBit(n, k - 1) = 1 /\ (BLowBits(n, k - 1) \/ q[1] % 2 = 1)
                 THEN BAdd(q, <<1>>) ELSE q, k)
        Sized(len) ==
            IF len = 0 THEN FZero
            ELSE IF len <= 53
            THEN [s |-> s, e |-> e - (53 - len), m |-> BShl(n, 53 - len)]
            ELSE Cut(BShr(n, len - 53), len - 53)
    IN  Sized(BBitLen(n))

\* float(i)
FInt(i) == FRound(IF i < 0 THEN -1 ELSE 1, 0, BOfInt(IF i < 0 THEN 0 - i ELSE i))

FNeg(a) == IF a.m = <<>> THEN a ELSE [a EXCEPT !.s = 0 - a.s]

\* a + b: x is the operand of the larger exponent, nx its mantissa at the
\* exponent of the other, c the comparison of the two magnitudes
FAdd(a, b) ==
    LET x == IF a.e >= b.e THEN a ELSE b
        y == IF a.e >= b.e THEN b ELSE a
        Signed(nx, c) ==
            FRound(IF x.s = y.s \/ c > 0 THEN x.s ELSE y.s, y.e,
                   IF x.s = y.s THEN BAdd(nx, y.m)
                   ELSE BSub(IF c > 0 THEN nx ELSE y.m, IF c > 0 THEN y.m ELSE nx))
        Aligned(nx) == Signed(nx, BCmp(nx, y.m))
    IN  IF a.m = <<>> THEN b
        ELSE IF b.m = <<>> THEN a
        ELSE IF x.e - y.e > 56 THEN x
        ELSE Aligned(BShl(x.m, x.e - y.e))

FSub(a, b) == FAdd(a, FNeg(b))

\* a * b
FMul(a, b) ==
    IF a.m = <<>> \/ b.m = <<>> THEN FZero
    ELSE FRound(a.s * b.s, a.e + b.e, BMul(a.m, b.m))

\* n / d for integers n >= 0 and 0 < d < LIMB: Python's true division, from
\* the quotient of n * 2^70 by d with one more bit for a remainder
FDivInt(n, d) ==
    LET Quot(qr) ==
            FRound(1, -71, BAdd(BShl(BTrim(qr[1]), 1),
                                IF qr[2] # 0 THEN <<1>> ELSE <<>>))
        Scaled(t) == Quot(BDivSmall(t, d, Len(t), 0))
    IN  IF n = 0 THEN FZero ELSE Scaled(BShl(BOfInt(n), 70))

\* int(a): truncation toward zero
FTrunc(a) ==
    IF a.m = <<>> \/ a.e < -52 THEN 0
    ELSE a.s * BToInt(IF a.e >= 0 THEN BShl(a.m, a.e) ELSE BShr(a.m, 0 - a.e))

\* a > b
FGt(a, b) ==
    LET Positive(d) == d.m # <<>> /\ d.s = 1
    IN  Positive(FSub(a, b))

FSign(a) == IF a.m = <<>> THEN 0 ELSE a.s

\* Vector2(0, 0)
FZero2 == <<FZero, FZero>>

------------------------------------------------------------------------------
(* pygame.Rect *)

Rect(x, y, w, h) == [x |-> x, y |-> y, w |-> w, h |-> h]

colliderect(a, b) ==
    /\ a.x < b.x + b.w
    /\ a.y < b.y + b.h
    /\ a.x + a.w > b.x
    /\ a.y + a.h > b.y

centerx(r) == r.x + r.w \div 2
centery(r) == r.y + r.h \div 2
SetCenterX(r, cx) == [r EXCEPT !.x = cx - r.w \div 2]
SetCenterY(r, cy) == [r EXCEPT !.y = cy - r.h \div 2]

------------------------------------------------------------------------------
(* TileMap *)

\* The cells TileMap.generate carves open
\* The plaza test without the guard that keeps the outer ring
InPlazaUnguarded(w, h, x, y) ==
    LET cx == w \div 2
        cy == h \div 2
    IN  /\ cy - 5 <= y /\ y < cy + 6
        /\ cx - 7 <= x /\ x < cx + 8

\* lines 79-83: the cells the plaza loop sets to 0
InPlaza(w, h, x, y) ==
    LET cx == w \div 2
        cy == h \div 2
    IN  /\ cy - 5 <= y /\ y < cy + 6
        /\ cx - 7 <= x /\ x < cx + 8
        /\ 0 < x /\ x < w - 1
        /\ 0 < y /\ y < h - 1

\* generate without the plaza
generateNoPlaza(w, h, fill) ==
    [y \in 0 .. h - 1 |->
        [x \in 0 .. w - 1 |->
            IF x \in {0, w - 1} \/ y \in {0, h - 1} THEN 1
            ELSE IF <<x, y>> \in fill THEN 1 ELSE 0]]

\* generate: `fill` is the set of interior cells <<x, y>> whose random draw
\* came below 0.06
generate(w, h, fill) ==
    [y \in 0 .. h - 1 |->
        [x \in 0 .. w - 1 |->
            IF InPlaza(w, h, x, y) THEN 0
            ELSE IF x \in {0, w - 1} \/ y \in {0, h - 1} THEN 1
            ELSE IF <<x, y>> \in fill THEN 1 ELSE 0]]

RECURSIVE RunEnd(_, _, _, _)
RunEnd(grid, w, y, x) ==
    IF x < w /\ grid[y][x] = 1 THEN RunEnd(grid, w, y, x + 1) ELSE x

RECURSIVE RowRects(_, _, _, _)
RowRects(grid, w, y, x) ==
    IF x >= w THEN <<>>
    ELSE IF grid[y][x] = 1
         THEN LET e == RunEnd(grid, w, y, x)
              IN  <<Rect(x * TILE, y * TILE, (e - x) * TILE, TILE)>>
                      \o RowRects(grid, w, y, e)
         ELSE RowRects(grid, w, y, x + 1)

RECURSIVE rebuild_wall_rects(_, _, _, _)
rebuild_wall_rects(grid, w, h, y) ==
    IF y >= h THEN <<>>
    ELSE RowRects(grid, w, y, 0) \o rebuild_wall_rects(grid, w, h, y + 1)

TileMap(w, h, fill) ==
    LET g == generate(w, h, fill)
    IN  [w |-> w, h |-> h, grid |-> g,
         wall_rects |-> rebuild_wall_rects(g, w, h, 0)]

rect_collide(m, rect) == SelectSeq(m.wall_rects, LAMBDA wr : colliderect(rect, wr))

\* Outcomes of the random fill the sessions of the model start from
FillSamples == { {<<3, 3>>, <<4, 3>>, <<40, 20>>, <<16, 15>>, <<24, 9>>} }

------------------------------------------------------------------------------
(* Particles: a bag of remaining lives *)

PartLives == 1 .. 20

NoParticles == [l \in PartLives |-> 0]

AddParticles(ps, n, life) == [ps EXCEPT ![life] = @ + n]

\* Particle.update on every particle: life -= 1, kill() at life <= 0
UpdateParticles(ps) ==
    [l \in PartLives |-> IF l + 1 \in PartLives THEN ps[l + 1] ELSE 0]

NumParticles(ps) ==
    LET RECURSIVE Sum(_)
        Sum(l) == IF l = 0 THEN 0 ELSE ps[l] + Sum(l - 1)
    IN  Sum(20)

------------------------------------------------------------------------------
(* Camera *)

CameraInit == [shake_frames |-> 0, shake_mag |-> 0]

\* Camera.update: the shake countdown.  The offset the update moves towards
\* the target is not state of the model.
CameraUpdate(cam, target_pos) ==
    [cam EXCEPT !.shake_frames = IF @ > 0 THEN @ - 1 ELSE @]

\* Camera.shake
CameraShake(cam, shake_frames, mag) ==
    [cam EXCEPT !.shake_frames = shake_frames, !.shake_mag = mag]

\* Camera.apply: the largest jitter (per axis) the transform may add
JitterBound(cam) == IF cam.shake_frames > 0 THEN cam.shake_mag ELSE 0

------------------------------------------------------------------------------
(* Player *)

Weapons == {"rifle", "shotgun"}
mag == [rifle |-> 30, shotgun |-> 8]
rpm == [rifle |-> 480, shotgun |-> 90]
PlayerRadius == 22
PlayerSpeed == 320
PlayerMaxHp == 150

\* Player.__init__ at the whole-pixel position pos
PlayerInit(pos) ==
    [pos |-> <<FInt(pos[1]), FInt(pos[2])>>, vel |-> FZero2,
     rect |-> Rect(pos[1] - PlayerRadius, pos[2] - PlayerRadius,
                   2 * PlayerRadius, 2 * PlayerRadius),
     hp |-> PlayerMaxHp, invuln |-> 0, dash_cd |-> 0, reload_time |-> 0,
     weapon |-> "rifle", ammo |-> mag, fire_cd |-> 0]

\* The held movement keys the frames of the model draw from
KeySets == { {}, {"d"}, {"a", "w"} }

\* 1.0 / sqrt(1.0 * 1.0 + 1.0 * 1.0) in doubles: 0x1.6a09e667f3bccp-1
\* (0.7071067811865475), the components of Vector2(1, 1).normalize()
InvSqrt2 == [s |-> 1, e |-> -53, m |-> <<15308, 6652, 2534, 1448>>]

\* Vector2.normalize (each component divided by the square root of the sum
\* of the squares) of a vector whose nonzero components have the same
\* magnitude, given by the signs d of its components; the zero vector, which
\* the code does not normalize, stays zero
NormalizeDir(d) ==
    IF d[1] # 0 /\ d[2] # 0
    THEN <<IF d[1] > 0 THEN InvSqrt2 ELSE FNeg(InvSqrt2),
           IF d[2] > 0 THEN InvSqrt2 ELSE FNeg(InvSqrt2)>>
    ELSE <<FInt(d[1]), FInt(d[2])>>

\* Player.input: vel = normalized direction * speed, in pixels per second
PlayerInput(p, keys) ==
    LET dx == (IF "d" \in keys THEN 1 ELSE 0) - (IF "a" \in keys THEN 1 ELSE 0)
        dy == (IF "s" \in keys THEN 1 ELSE 0) - (IF "w" \in keys THEN 1 ELSE 0)
        n == NormalizeDir(<<dx, dy>>)
    IN  [p EXCEPT !.vel = <<FMul(n[1], FInt(PlayerSpeed)), FMul(n[2], FInt(PlayerSpeed))>>]

\* Player.update_cooldowns without the refill at the end of the reload
update_cooldownsNoRefill(p) ==
    [p EXCEPT !.invuln = IF @ > 0 THEN @ - 1 ELSE @,
              !.dash_cd = IF @ > 0 THEN @ - 1 ELSE @,
              !.reload_time = IF @ > 0 THEN @ - 1 ELSE @,
              !.fire_cd = IF @ > 0 THEN @ - 1 ELSE @]

\* Player.update_cooldowns with a refill of one round too many
update_cooldownsOverfill(p) ==
    LET q == update_cooldownsNoRefill(p)
    IN  IF p.reload_time > 0 /\ q.reload_time <= 0
        THEN [q EXCEPT !.ammo[q.weapon] = mag[q.weapon] + 1]
        ELSE q

\* Player.update_cooldowns
update_cooldowns(p) ==
    LET p1 == [p EXCEPT !.invuln = IF @ > 0 THEN @ - 1 ELSE @,
                        !.dash_cd = IF @ > 0 THEN @ - 1 ELSE @]
        p2 == IF p1.reload_time > 0
              THEN LET q == [p1 EXCEPT !.reload_time = @ - 1]
                   IN  IF q.reload_time <= 0
                       THEN [q EXCEPT !.ammo[q.weapon] = mag[q.weapon]]
                       ELSE q
              ELSE p1
    IN  [p2 EXCEPT !.fire_cd = IF @ > 0 THEN @ - 1 ELSE @]

\* Player.damage without the invulnerability test
damageAlways(p, amt) == [p EXCEPT !.hp = @ - amt, !.invuln = 25]

\* Player.damage with an invulnerability one frame short
damageShortInvuln(p, amt) ==
    IF p.invuln > 0 THEN p
    ELSE [p EXCEPT !.hp = @ - amt, !.invuln = 24]

\* Player.damage
damage(p, amt) ==
    IF p.invuln > 0 THEN p
    ELSE [p EXCEPT !.hp = @ - amt, !.invuln = 25]

\* Player.reload without its test
reloadUnconditional(p) ==
    [p EXCEPT !.reload_time =
        IF p.weapon = "rifle" THEN (FPS * 8) \div 10 ELSE (FPS * 12) \div 10]

\* Player.reload
reload(p) ==
    IF p.reload_time <= 0 /\ p.ammo[p.weapon] < mag[p.weapon]
    THEN [p EXCEPT !.reload_time =
              IF p.weapon = "rifle" THEN (FPS * 8) \div 10 ELSE (FPS * 12) \div 10]
    ELSE p

\* Player.switch_weapon
switch_weapon(p) ==
    [p EXCEPT !.weapon = IF @ = "rifle" THEN "shotgun" ELSE "rifle"]

\* Entity.collide_move, one axis (i = 1: X, i = 2: Y).  vel is in pixels per
\* second and dt in seconds.
RECURSIVE ResolveWalls(_, _, _)
ResolveWalls(e, i, hits) ==
    IF hits = <<>> THEN e
    ELSE LET wr == Head(hits)
             r == IF i = 1
                  THEN IF FSign(e.vel[1]) > 0 THEN [e.rect EXCEPT !.x = wr.x - e.rect.w]
                       ELSE IF FSign(e.vel[1]) < 0 THEN [e.rect EXCEPT !.x = wr.x + wr.w]
                       ELSE e.rect
                  ELSE IF FSign(e.vel[2]) > 0 THEN [e.rect EXCEPT !.y = wr.y - e.rect.h]
                       ELSE IF FSign(e.vel[2]) < 0 THEN [e.rect EXCEPT !.y = wr.y + wr.h]
                       ELSE e.rect
             c == IF i = 1 THEN centerx(r) ELSE centery(r)
         IN  ResolveWalls([e EXCEPT !.rect = r, !.pos[i] = FInt(c)], i, Tail(hits))

MoveAxis(e, i, dt, tilemap) ==
    LET p == FAdd(e.pos[i], FMul(e.vel[i], dt))
        c == FTrunc(p)
        r == IF i = 1 THEN SetCenterX(e.rect, c) ELSE SetCenterY(e.rect, c)
    IN  ResolveWalls([e EXCEPT !.pos[i] = p, !.rect = r], i, rect_collide(tilemap, r))

collide_move(e, dt, tilemap) == MoveAxis(MoveAxis(e, 1, dt, tilemap), 2, dt, tilemap)

\* Player.try_dash on the game: the teleport, the cooldown, the shake, the dust
try_dash(g) ==
    LET p == g.player
    IN  IF p.dash_cd <= 0 /\ p.vel # FZero2
        THEN LET n == NormalizeDir(<<FSign(p.vel[1]), FSign(p.vel[2])>>)
                 np == <<FAdd(p.pos[1], FMul(n[1], FInt(140))),
                         FAdd(p.pos[2], FMul(n[2], FInt(140)))>>
                 r == SetCenterY(SetCenterX(p.rect, FTrunc(np[1])), FTrunc(np[2]))
             IN  [g EXCEPT !.player = [p EXCEPT !.pos = np, !.rect = r, !.dash_cd = 50],
                           !.camera = CameraShake(@, 6, 5),
                           !.particles = AddParticles(@, 16, 18)]
        ELSE g

------------------------------------------------------------------------------
(* Enemy, Bullet *)

Tiers == {1, 2, 3}

\* Enemy.__init__; id stands for the object's identity: wave * 100 + rank
Enemy(tier, id) == [tier |-> tier, hp |-> 40 + 20 * (tier - 1), id |-> id]

EnemyRadius(tier) == 20 + 3 * (tier - 1)
EnemySpeed(tier) == 170 + 20 * (tier - 1)

Bullet(life) == [life |-> life]

RECURSIVE Repeat(_, _)
Repeat(x, n) == IF n = 0 THEN <<>> ELSE <<x>> \o Repeat(x, n - 1)

------------------------------------------------------------------------------
(* Game: the operations work on a record g of the Game object's fields      *)
(* (plus the histories credit and log) and return the record after the call *)

Game ==
    [map |-> map, player |-> player, camera |-> camera, enemies |-> enemies,
     bullets |-> bullets, particles |-> particles, wave |-> wave,
     score |-> score, game_over |-> game_over, credit |-> credit, log |-> log]

\* What a handler's log starts from
Summary(g) ==
    [weapon |-> g.player.weapon, ammo |-> g.player.ammo,
     fire_cd |-> g.player.fire_cd, reload_time |-> g.player.reload_time,
     nb |-> Len(g.bullets)]

\* log: op, the handler; ran, the simulation branch ran; pre, the weapon state
\* when the handler starts; mid and post, the weapon state before and after
\* the place of the shoot call (in a frame: after update_cooldowns); called, shoot
\* was called; damage, the Player.damage calls; hits and lost, what bullet vs
\* enemy did to each bullet and each enemy of its snapshots; atcheck and wave0, the enemy
\* count at the wave check and the wave counter before the handler; sampling,
\* how the position loop of the handler's spawn_wave call ended
NewLog(op, g) ==
    [op |-> op, ran |-> FALSE, dt |-> 0, pre |-> Summary(g), mid |-> Summary(g),
     called |-> FALSE, lastw |-> "none", age |-> 0,
     own |-> [w \in Weapons |-> 0], rw |-> "none", rticks |-> 0,
     hurt |-> FALSE, dage |-> 0, gap |-> 0, sarm |-> 0, sage |-> 0,
     post |-> Summary(g), damage |-> <<>>, hits |-> <<>>, lost |-> <<>>,
     atcheck |-> Len(g.enemies), wave0 |-> g.wave, sampling |-> "done"]

\* Game.spawn_wave.  draws[i] is the outcome of random.random() < 0.6 for the
\* i-th enemy (read only from wave 3 on).  The positions the rejection
\* sampling gives the enemies are not state of the model, but whether it
\* ends is: when it does not (Sampling), the call is left with the counter
\* incremented and no enemy added.
\* The tier rule starting one wave late
SpawnTierLate(w, draw) == IF w <= 3 THEN 1 ELSE IF draw THEN 2 ELSE 3

\* line 362: the tier of an enemy of wave w; draw: random.random() < 0.6
SpawnTier(w, draw) == IF w < 3 THEN 1 ELSE IF draw THEN 2 ELSE 3

RECURSIVE SpawnBatch(_, _, _, _)
SpawnBatch(es, w, n, draws) ==
    IF n = 0 THEN es
    ELSE LET i == Len(draws) - n + 1
         IN  SpawnBatch(Append(es, Enemy(SpawnTier(w, draws[i]), w * 100 + i)),
                        w, n - 1, draws)

\* The batch size computed from the counter before its increment
WaveSizeBeforeIncrement(w) == 6 + (w - 1) * 2

\* line 360: n = 6 + self.wave * 2
WaveSize(w) == 6 + w * 2

\* Line 368 for the cell centre <<cx, cy>> and the threshold r (380):
\* (pos - self.player.pos).length() > r.  length() is the square root,
\* rounded, of t = dx * dx + dy * dy computed in doubles; for r = 380 (and
\* 420) the next double above r * r has a square root that rounds above r,
\* so the test is t > r * r.  tx, ty are int(player.pos): each difference
\* lies within one pixel of cx - tx, cy - ty, and the two whole-number tests
\* decide the cells away from the circle without the double arithmetic
\* (rounding is monotone, so they agree with it).
FarFromPlayer(cx, cy, ppos, tx, ty, r) ==
    LET ax == IF cx < tx THEN tx - cx ELSE cx - tx
        ay == IF cy < ty THEN ty - cy ELSE cy - ty
        lx == Max(0, ax - 1)
        ly == Max(0, ay - 1)
        dx == FSub(FInt(cx), ppos[1])
        dy == FSub(FInt(cy), ppos[2])
    IN  IF lx > r \/ ly > r \/ lx * lx + ly * ly > r * r THEN TRUE
        ELSE IF (ax + 1) * (ax + 1) + (ay + 1) * (ay + 1) <= r * r THEN FALSE
        ELSE FGt(FAdd(FMul(dx, dx), FMul(dy, dy)), FInt(r * r))

\* Lines 364-368: the cells <<x, y>> the sampling accepts with the player at
\* ppos and the threshold r
CellsBeyond(m, ppos, r) ==
    LET tx == FTrunc(ppos[1])
        ty == FTrunc(ppos[2])
    IN  { c \in (1 .. m.w - 2) \X (1 .. m.h - 2) :
            /\ m.grid[c[2]][c[1]] = 0
            /\ FarFromPlayer(c[1] * TILE + TILE \div 2, c[2] * TILE + TILE \div 2,
                             ppos, tx, ty, r) }

\* The accepted cells with the distance test 40 pixels stricter
SpawnCellsFar(m, ppos) == CellsBeyond(m, ppos, 420)

\* lines 363-369: the cells <<x, y>> the rejection sampling of spawn_wave
\* accepts with the player at ppos
SpawnCells(m, ppos) == CellsBeyond(m, ppos, 380)

\* Lines 362-369, how the position loop of the first enemy ends with the
\* player at ppos: "raises" when random.randint(1, w - 2) or
\* random.randint(1, h - 2) has an empty range (ValueError), "never" when no
\* cell can be accepted (while True goes on for ever), "done" otherwise
\* (every accepted cell has a positive probability in each round)
Sampling(m, ppos) ==
    IF m.w < 3 \/ m.h < 3 THEN "raises"
    ELSE IF \E c \in SpawnCells(m, ppos) : TRUE THEN "done"
    ELSE "never"

\* Game.spawn_wave, lines 358-370
spawn_wave(g, draws) ==
    LET w == g.wave + 1
    IN  IF Sampling(g.map, g.player.pos) = "done"
        THEN [g EXCEPT !.wave = w,
                       !.enemies = SpawnBatch(@, w, WaveSize(w), draws)]
        ELSE [g EXCEPT !.wave = w]

\* The rectangle of an enemy of the tier created at the centre of the cell
\* (lines 367 and 370, Entity.__init__ line 165): a square of side twice
\* the radius centred on the cell centre, in pixels
SpawnRect(c, tier) ==
    Rect(c[1] * TILE + TILE \div 2 - EnemyRadius(tier),
         c[2] * TILE + TILE \div 2 - EnemyRadius(tier),
         EnemyRadius(tier) * 2, EnemyRadius(tier) * 2)

\* The outcomes of the tier draws the model explores for a batch of wave w:
\* the first k draws below 0.6, the others not
DrawChoices(w) ==
    IF w < 3 THEN { [i \in 1 .. WaveSize(w) |-> TRUE] }
    ELSE { [i \in 1 .. WaveSize(w) |-> i <= k] : k \in 0 .. WaveSize(w) }

\* The fire cooldown in frames: max(1, int(60 / (rpm / 60)))
FireCooldown(w) == Max(1, (60 * 60) \div rpm[w])

\* One round per pellet
AmmoPerPellet(n) == n - 6

\* The magazine after a shot (lines 389, 400)
AmmoAfterShot(n) == n - 1

\* Game.shoot (the aim direction and the spread only place the bullets)
shoot(g) ==
    LET p == g.player
        w == p.weapon
    IN  IF p.reload_time > 0 \/ p.fire_cd > 0 THEN g
        ELSE IF p.ammo[w] <= 0 THEN g
        ELSE LET pellets == IF w = "rifle" THEN 1 ELSE 6
                 life == IF w = "rifle" THEN 70 ELSE 50
             IN  [g EXCEPT
                    !.bullets = @ \o Repeat(Bullet(life), pellets),
                    !.player.fire_cd = FireCooldown(w),
                    !.player.ammo[w] = AmmoAfterShot(@),
                    !.particles = AddParticles(@, IF w = "rifle" THEN 8 ELSE 16, 14),
                    !.camera = IF w = "rifle" THEN CameraShake(@, 5, 6)
                               ELSE CameraShake(@, 8, 9)]

\* The log's history of the shots: lastw is the weapon of the last successful
\* shot, age the number of the loop's iterations from the one of that shot to
\* the one now running (the events of an iteration come before its frame),
\* counted up to that weapon's cooldown; own[w] is what a timer of weapon w
\* alone would read, set to w's cooldown by a shot of w and taken down by
\* every update_cooldowns.  `old` is the log before the step.
Fired(lg) == lg.called /\ lg.post.nb > lg.mid.nb

OwnTimers(lg, old) ==
    [w \in Weapons |->
        IF Fired(lg) /\ lg.mid.weapon = w THEN FireCooldown(w)
        ELSE IF lg.ran /\ old.own[w] > 0 THEN old.own[w] - 1
        ELSE old.own[w]]

\* The log's history of the damage: hurt says that hp has gone down in some
\* frame; dage counts the frames since the last such frame (frames of a
\* paused game too) and saturates at 25: 25 stands for 25 or more; gap is the
\* number of frames from the damaging frame before the last one to the last
\* one, saturated likewise: 26 stands for 26 or more (a gap the
\* invulnerability no longer explains).
HurtIn(lg) == \E k \in DOMAIN lg.damage : lg.damage[k].hp1 < lg.damage[k].hp0

DamageHistory(lg, old, isframe) ==
    IF HurtIn(lg)
    THEN [lg EXCEPT !.hurt = TRUE, !.dage = 0,
                    !.gap = IF old.hurt THEN old.dage + 1 ELSE 0]
    ELSE [lg EXCEPT !.hurt = old.hurt, !.gap = old.gap,
                    !.dage = IF isframe /\ old.hurt THEN Min(old.dage + 1, 25)
                             ELSE old.dage]

\* The log's history of the reload: rw is the weapon that was active when the
\* last reload was requested, rticks the update_cooldowns calls that have
\* taken its reload_time down.
ReloadHistory(lg, old) ==
    IF lg.op = "r" /\ lg.pre.reload_time = 0 /\ lg.post.reload_time > 0
    THEN [lg EXCEPT !.rw = lg.pre.weapon, !.rticks = 0]
    ELSE [lg EXCEPT !.rw = old.rw,
                    !.rticks = IF lg.ran /\ lg.pre.reload_time > 0
                               THEN old.rticks + 1 ELSE old.rticks]

ShotHistory(lg, old, isframe) ==
    IF Fired(lg)
    THEN [DamageHistory(ReloadHistory(lg, old), old, isframe) EXCEPT
                    !.lastw = lg.mid.weapon, !.age = IF isframe THEN 1 ELSE 0,
                    !.own = OwnTimers(lg, old)]
    ELSE [DamageHistory(ReloadHistory(lg, old), old, isframe) EXCEPT
                    !.lastw = old.lastw,
                    !.age = IF isframe /\ old.lastw # "none"
                            THEN Min(old.age + 1, FireCooldown(old.lastw))
                            ELSE old.age,
                    !.own = OwnTimers(lg, old)]

\* The log's history of the shake: sarm is the frame count of the last
\* Camera.shake call (by a shot, a dash or a contact), sage the frames of the
\* loop since that call, its own frame included, counted up to sarm.  g is
\* the game after the step, whose log is lg; `dashed` says an event dashed.
ArmHistory(g, lg, old, dashed, isframe) ==
    IF Fired(lg) \/ lg.damage # <<>> \/ dashed
    THEN [lg EXCEPT !.sarm = IF isframe THEN g.camera.shake_frames + 1
                             ELSE g.camera.shake_frames,
                    !.sage = IF isframe THEN 1 ELSE 0]
    ELSE [lg EXCEPT !.sarm = old.sarm,
                    !.sage = IF isframe THEN Min(old.sage + 1, old.sarm) ELSE old.sage]

\* The histories of a step
History(g, old, dashed, isframe) ==
    [g EXCEPT !.log = ArmHistory(g, ShotHistory(g.log, old, isframe), old, dashed, isframe)]

\* A shoot call, logged
LoggedShoot(g) ==
    LET h == shoot(g)
    IN  [h EXCEPT !.log.called = TRUE, !.log.post = Summary(h)]

\* Bullet.update on every bullet of list(self.bullets); wallhit: the bullets
\* whose rectangle meets a wall after the move
RECURSIVE UpdateBullets(_, _, _)
UpdateBullets(bs, i, wallhit) ==
    IF i > Len(bs) THEN <<>>
    ELSE LET l0 == IF i \in wallhit THEN 0 ELSE bs[i].life
             l1 == l0 - 1
         IN  (IF l1 <= 0 THEN <<>> ELSE <<[bs[i] EXCEPT !.life = l1]>>)
                 \o UpdateBullets(bs, i + 1, wallhit)

\* The enemy loop (lines 473-489); contact: the enemies whose rectangle meets
\* the player's after their move
RECURSIVE EnemyLoop(_, _, _)
EnemyLoop(g, i, contact) ==
    IF i > Len(g.enemies) THEN g
    ELSE IF i \in contact
         THEN LET p == damage(g.player, 12)
              IN  EnemyLoop(
                    [g EXCEPT !.player = p,
                              !.camera = CameraShake(@, 8, 7),
                              !.particles = AddParticles(@, 12, 18),
                              !.log.damage = Append(@,
                                  [hp0 |-> g.player.hp, inv0 |-> g.player.invuln,
                                   hp1 |-> p.hp, inv1 |-> p.invuln])],
                    i + 1, contact)
         ELSE EnemyLoop(g, i + 1, contact)

\* b.kill() left out: the bullet stays in the group
KillBulletMissing(blive, j) == blive

\* b.kill() (line 496): the bullets still in the group
KillBullet(blive, j) == blive \ {j}

\* The body of `if e.rect.colliderect(b.rect)` (lines 495-523) for enemy i
\* and bullet j of the two snapshots.  st: [es, elive, blive, parts, score,
\* credit, dmg]
HitEnemy(st, i, j) ==
    LET e == [st.es[i] EXCEPT !.hp = @ - 20]
        dead == e.hp <= 0
        p1 == AddParticles(st.parts, 10, 16)
    IN  [st EXCEPT !.es[i] = e,
                   !.blive = KillBullet(@, j),
                   !.dmg[j] = @ + 1,
                   !.parts = IF dead THEN AddParticles(p1, 18, 20) ELSE p1,
                   !.score = IF dead THEN @ + 10 * e.tier ELSE @,
                   !.credit = IF dead /\ i \in st.elive THEN @ + 10 * e.tier ELSE @,
                   !.elive = IF dead THEN @ \ {i} ELSE @]

\* for b in list(self.bullets): js is the snapshot, as indices
RECURSIVE BulletLoop(_, _, _, _)
BulletLoop(st, i, js, ov) ==
    IF js = <<>> THEN st
    ELSE IF i \in ov[Head(js)]
         THEN BulletLoop(HitEnemy(st, i, Head(js)), i, Tail(js), ov)
         ELSE BulletLoop(st, i, Tail(js), ov)

Indices(n, S) == SelectSeq([k \in 1 .. n |-> k], LAMBDA k : k \in S)

\* for e in list(self.enemies)
RECURSIVE HitLoop(_, _, _, _)
HitLoop(st, i, nb, ov) ==
    IF i > Len(st.es) THEN st
    ELSE HitLoop(BulletLoop(st, i, Indices(nb, st.blive), ov), i + 1, nb, ov)

Pick(s, S) == [k \in 1 .. Len(Indices(Len(s), S)) |-> s[Indices(Len(s), S)[k]]]

\* bullet vs enemy (lines 491-523); ov[j]: the enemies whose rectangle meets
\* that of bullet j
BulletVsEnemy(g, ov) ==
    LET nb == Len(g.bullets)
        st0 == [es |-> g.enemies, elive |-> 1 .. Len(g.enemies), blive |-> 1 .. nb,
                parts |-> g.particles, score |-> g.score, credit |-> g.credit,
                dmg |-> [j \in 1 .. nb |-> 0]]
        st == HitLoop(st0, 1, nb, ov)
    IN  [g EXCEPT !.enemies = Pick(st.es, st.elive),
                  !.bullets = Pick(g.bullets, st.blive),
                  !.particles = st.parts,
                  !.score = st.score,
                  !.credit = st.credit,
                  !.log.hits = [j \in 1 .. nb |->
                                   [ov |-> ov[j], dmg |-> st.dmg[j],
                                    gone |-> j \notin st.blive]],
                  !.log.lost = [i \in 1 .. Len(g.enemies) |->
                                   g.enemies[i].hp - st.es[i].hp]]

------------------------------------------------------------------------------
(* One frame of Game.run after the event loop (lines 456-540) *)

\* Frame times clock.tick(FPS) returns, in milliseconds
DtSet == {16, 17}

\* lines 458-466: input, cooldowns, continuous fire, the player's move
FrameHead(g, keys, held, dt) ==
    LET Moved(g3) ==
            [g3 EXCEPT !.player = collide_move(@, FDivInt(dt, 1000), g3.map)]
        Shot(g2) == Moved(IF held THEN LoggedShoot(g2) ELSE g2)
        Cooled(g1) ==
            Shot([g1 EXCEPT !.log.ran = TRUE, !.log.dt = dt,
                            !.log.mid = Summary(g1), !.log.post = Summary(g1)])
    IN  Cooled([g EXCEPT !.player = update_cooldowns(PlayerInput(@, keys))])

\* The frame's tail with the wave check off by one: a wave is spawned when
\* at most one enemy is left
FrameTailEarly(g, draws) ==
    LET Seen(g3) == [g3 EXCEPT !.camera = CameraUpdate(@, g3.player.pos)]
        Ended(g2) ==
            IF g2.log.sampling # "done" THEN g2
            ELSE Seen(IF g2.player.hp <= 0 THEN [g2 EXCEPT !.game_over = TRUE]
                      ELSE g2)
        Checked(g1) ==
            Ended(IF Len(g1.enemies) <= 1
                  THEN [spawn_wave(g1, draws) EXCEPT
                           !.log.sampling = Sampling(g1.map, g1.player.pos)]
                  ELSE g1)
    IN  Checked([g EXCEPT !.particles = UpdateParticles(@),
                          !.log.atcheck = Len(g.enemies)])

\* lines 525-538: particles, next wave, death, camera.  A spawn_wave call
\* that does not return ends the session: the frame stops there.
FrameTail(g, draws) ==
    LET Seen(g3) == [g3 EXCEPT !.camera = CameraUpdate(@, g3.player.pos)]
        Ended(g2) ==
            IF g2.log.sampling # "done" THEN g2
            ELSE Seen(IF g2.player.hp <= 0 THEN [g2 EXCEPT !.game_over = TRUE]
                      ELSE g2)
        Checked(g1) ==
            Ended(IF Len(g1.enemies) = 0
                  THEN [spawn_wave(g1, draws) EXCEPT
                           !.log.sampling = Sampling(g1.map, g1.player.pos)]
                  ELSE g1)
    IN  Checked([g EXCEPT !.particles = UpdateParticles(@),
                          !.log.atcheck = Len(g.enemies)])

\* The inputs of a frame: the held keys, the frame time, the held mouse
\* button, and the rectangle tests of the entities whose positions are not
\* state: the first `wall` bullets meet a wall, the first `contact` enemies
\* meet the player, the first `ovk` bullets each meet the first `ovt` enemies,
\* or (diag) bullet j meets enemy j alone.
Quiet ==
    [keys |-> {}, dt |-> 16, held |-> FALSE, wall |-> 0, contact |-> 0,
     ovk |-> 0, ovt |-> 0, diag |-> FALSE]

WallHit(in, nb) == 1 .. Min(nb, in.wall)

Contact(in, ne) == 1 .. Min(ne, in.contact)

Overlap(in, nb, ne) ==
    [j \in 1 .. nb |->
        IF in.diag THEN (IF j <= ne THEN {j} ELSE {})
        ELSE IF j <= in.ovk THEN 1 .. Min(ne, in.ovt) ELSE {}]

MoveInputs == { [Quiet EXCEPT !.keys = {"d"}],
                [Quiet EXCEPT !.keys = {"a", "w"}, !.dt = 17] }

FrameInputs ==
    {Quiet} \cup MoveInputs
    \cup { [Quiet EXCEPT !.held = TRUE] }
    \cup { [Quiet EXCEPT !.wall = k] : k \in 1 .. MaxWall }
    \cup { [Quiet EXCEPT !.contact = c] : c \in 1 .. NearEnemies }
    \cup { [Quiet EXCEPT !.ovk = k, !.ovt = t] : k \in 1 .. MaxOv, t \in 1 .. NearEnemies }
    \cup { [Quiet EXCEPT !.diag = TRUE] }

Set(g) ==
    /\ player' = g.player
    /\ camera' = g.camera
    /\ enemies' = g.enemies
    /\ bullets' = g.bullets
    /\ particles' = g.particles
    /\ wave' = g.wave
    /\ score' = g.score
    /\ game_over' = g.game_over
    /\ credit' = g.credit
    /\ log' = g.log
    /\ map' = map

\* The simulation branch of the frame (lines 458-523) on input `in`: the
\* head of the frame, then the bullets, the enemies, the bullets' hits
RunFrame(g, in) ==
    LET Hits(g3) == BulletVsEnemy(g3, Overlap(in, Len(g3.bullets), Len(g3.enemies)))
        Touch(g2) == Hits(EnemyLoop(g2, 1, Contact(in, Len(g2.enemies))))
        Fly(g1) == Touch([g1 EXCEPT !.bullets = UpdateBullets(@, 1, WallHit(in, Len(@)))])
    IN  Fly(FrameHead(g, in.keys, in.held, in.dt))

\* The gate without the game_over flag
RunningAfterDeath == ~paused

\* The gate without the pause flag
RunningWhilePaused == ~game_over

\* not self.paused and not self.game_over (lines 426-427, 432-433, 438-439,
\* 451-452, 457)
Running == ~paused /\ ~game_over

\* The frame with its input drawn from `inputs`
FrameStep(inputs) ==
    LET g0 == [Game EXCEPT !.log = NewLog("frame", Game)]
    IN  /\ log.sampling = "done"
        /\ IF ~Running
           THEN Set(History(g0, log, FALSE, TRUE))
           ELSE \E in \in inputs : \E g4 \in {RunFrame(g0, in)} :
                  \E draws \in (IF Len(g4.enemies) = 0
                                  THEN DrawChoices(g4.wave + 1) ELSE {<<>>}) :
                    Set(History(FrameTail(g4, draws), log, FALSE, TRUE))

Frame ==
    /\ frames < MaxFrames
    /\ FrameStep(FrameInputs)
    /\ frames' = frames + 1
    /\ UNCHANGED <<paused, fullscreen, events>>

------------------------------------------------------------------------------
(* The event loop (lines 417-454), one action per event *)

Event(op, g, called) ==
    /\ log.sampling = "done"
    /\ Set(History([g EXCEPT !.log = [NewLog(op, Game) EXCEPT !.called = called,
                                                              !.post = Summary(g)]],
                    log, g.player.dash_cd > player.dash_cd, FALSE))
    /\ events' = events + 1
    /\ UNCHANGED frames

OnEscape ==
    /\ paused' = ~paused
    /\ Event("escape", Game, FALSE)
    /\ UNCHANGED fullscreen

OnSpace ==
    /\ Event("space", IF Running THEN try_dash(Game) ELSE Game, FALSE)
    /\ UNCHANGED <<paused, fullscreen>>

OnR ==
    /\ Event("r", IF Running THEN [Game EXCEPT !.player = reload(@)] ELSE Game, FALSE)
    /\ UNCHANGED <<paused, fullscreen>>

OnQ ==
    /\ Event("q", IF Running THEN [Game EXCEPT !.player = switch_weapon(@)] ELSE Game,
             FALSE)
    /\ UNCHANGED <<paused, fullscreen>>

OnF11 ==
    /\ fullscreen' = ~fullscreen
    /\ Event("f11", Game, FALSE)
    /\ UNCHANGED paused

OnMouseDown ==
    /\ Event("mousedown", IF Running THEN shoot(Game) ELSE Game, Running)
    /\ UNCHANGED <<paused, fullscreen>>

KeyEscape == events < MaxEvents /\ OnEscape
KeySpace == events < MaxEvents /\ OnSpace
KeyR == events < MaxEvents /\ OnR
KeyQ == events < MaxEvents /\ OnQ
KeyF11 == events < MaxEvents /\ OnF11
MouseDown == events < MaxEvents /\ OnMouseDown

------------------------------------------------------------------------------
(* Game.__init__ *)

\* lines 344-354: the fields before the first spawn_wave, on the map m
NewGameOn(m) ==
    LET p == PlayerInit(<<(m.w * TILE) \div 2, (m.h * TILE) \div 2>>)
    IN  [map |-> m, player |-> p, camera |-> CameraInit, enemies |-> <<>>,
         bullets |-> <<>>, particles |-> NoParticles, wave |-> 0,
         score |-> 0, game_over |-> FALSE, credit |-> 0]

\* lines 337-354
NewGame(fill) == NewGameOn(TileMap(MAP_W, MAP_H, fill))

\* line 355: the first spawn_wave, which ends the constructor
Constructed(fill) == spawn_wave(NewGame(fill), CHOOSE d \in DrawChoices(1) : TRUE)

\* The variables at the start of Game.run, the fields being those of g
Start(g, lg) ==
    /\ map = g.map
    /\ player = g.player
    /\ camera = g.camera
    /\ enemies = g.enemies
    /\ bullets = g.bullets
    /\ particles = g.particles
    /\ wave = g.wave
    /\ score = g.score
    /\ game_over = g.game_over
    /\ paused = FALSE
    /\ fullscreen = FALSE
    /\ credit = g.credit
    /\ frames = 0
    /\ events = 0
    /\ log = lg

Init ==
    \E fill \in FillSamples :
        \E g1 \in {Constructed(fill)} :
            Start(g1, [NewLog("init", g1) EXCEPT !.atcheck = 0, !.wave0 = 0])

Next ==
    \/ KeyEscape
    \/ KeySpace
    \/ KeyR
    \/ KeyQ
    \/ KeyF11
    \/ MouseDown
    \/ Frame

Spec == Init /\ [][Next]_vars

------------------------------------------------------------------------------
(* The reload cycle: the session of Init, driven by fire, reload and weapon  *)
(* switch events, with the frames that run while fire_cd or reload_time is   *)
(* counting down.  Frames in which neither timer runs only age bullets and   *)
(* particles and are left out.  The events arrive at sampled moments: with   *)
(* fire_cd at 0 or at a cooldown's start, and reload_time a multiple of 16   *)
(* (its end, 0, included).  The mouse button is held, or not, in the frames  *)
(* of a reload, the frame that ends it included.                             *)

\* The events of a reload scenario
ReloadEvents == 5

EventMoment ==
    /\ events < ReloadEvents
    /\ player.fire_cd \in {0} \cup { FireCooldown(w) : w \in Weapons }
    /\ player.reload_time % 16 = 0

ReloadInputs ==
    IF player.reload_time > 0 THEN { Quiet, [Quiet EXCEPT !.held = TRUE] }
    ELSE { Quiet }

ReloadMouseDown == EventMoment /\ OnMouseDown
ReloadKeyR == EventMoment /\ OnR
ReloadKeyQ == EventMoment /\ OnQ

ReloadFrame ==
    /\ player.fire_cd > 0 \/ player.reload_time > 0
    /\ FrameStep(ReloadInputs)
    /\ UNCHANGED <<paused, fullscreen, events, frames>>

NextReload ==
    \/ ReloadMouseDown
    \/ ReloadKeyR
    \/ ReloadKeyQ
    \/ ReloadFrame

SpecReload == Init /\ [][NextReload]_vars

------------------------------------------------------------------------------
(* The waves: a session at the start of Game.run (wave 1 just spawned by the *)
(* constructor), or later in wave w0 with one enemy of that wave left, one   *)
(* hit from destruction; the enemies destroyed so far had tier 1 (waves 1,   *)
(* 2) or 2, the player has reloaded and stands where it started, and the     *)
(* shake of the last rifle shot (Camera.shake(5, 6), line 411) has run out:  *)
(* its magnitude stays in the camera.  In a frame the mouse button is held   *)
(* and the first bullet of the group meets the first enemy, or neither.      *)

\* The waves a session starts in; the frames and events of a session
MaxWave == 4
WaveFrames == 3
WaveEvents == 2

\* 10 * tier summed over the enemies of the waves before w0 and all but one
\* of wave w0
RECURSIVE ScoreUpTo(_)
ScoreUpTo(w) ==
    IF w = 0 THEN 0 ELSE ScoreUpTo(w - 1) + 10 * SpawnTier(w, TRUE) * WaveSize(w)

LastOfWave(fill, w0, draw) ==
    LET g == NewGame(fill)
        sc == ScoreUpTo(w0) - 10 * SpawnTier(w0, TRUE)
        e == Enemy(SpawnTier(w0, draw), w0 * 100 + WaveSize(w0))
    IN  [g EXCEPT !.wave = w0,
                  !.enemies = <<[e EXCEPT !.hp = 20]>>,
                  !.camera = [CameraShake(@, 5, 6) EXCEPT !.shake_frames = 0],
                  !.score = sc,
                  !.credit = sc]

InitWave ==
    \E fill \in FillSamples, w0 \in 0 .. MaxWave, draw \in BOOLEAN :
        IF w0 = 0
        THEN \E g \in {Constructed(fill)} :
                Start(g, [NewLog("init", g) EXCEPT !.atcheck = 0, !.wave0 = 0])
        ELSE \E g \in {LastOfWave(fill, w0, draw)} :
                Start(g, NewLog("init", g))

WaveInputs ==
    { Quiet, [Quiet EXCEPT !.held = TRUE, !.ovk = 1, !.ovt = 1] }

WaveKeyQ == events < WaveEvents /\ OnQ
WaveMouseDown == events < WaveEvents /\ OnMouseDown

WaveFrame ==
    /\ frames < WaveFrames
    /\ FrameStep(WaveInputs)
    /\ frames' = frames + 1
    /\ UNCHANGED <<paused, fullscreen, events>>

NextWave ==
    \/ WaveKeyQ
    \/ WaveMouseDown
    \/ WaveFrame

SpecWave == InitWave /\ [][NextWave]_vars

------------------------------------------------------------------------------
(* Defeat: the session of Init with enemies in contact with the player in   *)
(* every frame, so the player is hit each time its invulnerability runs out, *)
(* 13 times in all.  When the player is one hit from defeat and the next     *)
(* contact will hit, and after the defeat, the scenario also tries the       *)
(* events and a few frames with other inputs (no contact; keys or the mouse  *)
(* button held).                                                             *)

\* The events and the frames without contact of a defeat scenario
ContactEvents == 2
ContactFrames == 2

LastStand == player.hp <= 12 /\ player.invuln <= 1

ContactInputs == { [Quiet EXCEPT !.contact = NearEnemies] }

FreeInputs == { Quiet, [Quiet EXCEPT !.keys = {"d"}], [Quiet EXCEPT !.held = TRUE] }

ContactFrame ==
    /\ FrameStep(ContactInputs)
    /\ UNCHANGED <<paused, fullscreen, events, frames>>

FreeFrame ==
    /\ LastStand \/ game_over
    /\ frames < ContactFrames
    /\ FrameStep(FreeInputs)
    /\ frames' = frames + 1
    /\ UNCHANGED <<paused, fullscreen, events>>

ContactEvent == (LastStand \/ game_over) /\ events < ContactEvents

ContactKeyEscape == ContactEvent /\ OnEscape
ContactKeySpace == ContactEvent /\ OnSpace
ContactKeyR == ContactEvent /\ OnR
ContactKeyQ == ContactEvent /\ OnQ
ContactMouseDown == ContactEvent /\ OnMouseDown

NextContact ==
    \/ ContactFrame
    \/ FreeFrame
    \/ ContactKeyEscape
    \/ ContactKeySpace
    \/ ContactKeyR
    \/ ContactKeyQ
    \/ ContactMouseDown

SpecContact == Init /\ [][NextContact]_vars

------------------------------------------------------------------------------
(* Rejected actions: the session of Init with the mouse button held in every *)
(* frame and every bullet lost to a wall in the frame it is fired, until the *)
(* rifle's magazine is empty and its last cooldown over (30 shots; in the    *)
(* frames between two shots the held button calls shoot with fire_cd > 0,    *)
(* after the last with an empty magazine).  From then on the scenario        *)
(* tries the fire, reload, switch and dash events and a few frames with      *)
(* other inputs; a reload that was started runs to its end with the button   *)
(* held, and the events arrive when reload_time is a multiple of 16.         *)

\* The events and the frames of a scenario once the magazine is empty
RejectEvents == 2
RejectFrames == 1

Emptied ==
    \/ player.ammo["rifle"] = 0 /\ player.fire_cd = 0
    \/ events > 0
    \/ frames > 0

EmptyingInputs == { [Quiet EXCEPT !.held = TRUE, !.wall = 1] }

RejectInputs == { Quiet, [Quiet EXCEPT !.keys = {"d"}], [Quiet EXCEPT !.held = TRUE] }

\* A frame: one that empties the magazine or runs a reload (not counted), or
\* one with other inputs (counted)
FreePhase == Emptied /\ player.reload_time = 0

RejectFrame ==
    /\ FreePhase => frames < RejectFrames
    /\ FrameStep(IF FreePhase THEN RejectInputs ELSE EmptyingInputs)
    /\ frames' = IF FreePhase THEN frames + 1 ELSE frames
    /\ UNCHANGED <<paused, fullscreen, events>>

RejectEvent ==
    /\ Emptied
    /\ events < RejectEvents
    /\ player.reload_time % 16 = 0

RejectMouseDown == RejectEvent /\ OnMouseDown
RejectKeyR == RejectEvent /\ OnR
RejectKeyQ == RejectEvent /\ OnQ
RejectKeySpace == RejectEvent /\ OnSpace

NextReject ==
    \/ RejectFrame
    \/ RejectMouseDown
    \/ RejectKeyR
    \/ RejectKeyQ
    \/ RejectKeySpace

SpecReject == Init /\ [][NextReject]_vars

------------------------------------------------------------------------------
(* Map generation: TileMap(w, h, tile) for the game's 48 x 30 grid and for   *)
(* small grids, from the grid of zeros of TileMap.__init__ (line 66), with   *)
(* the outcome of the random fill drawn from the subsets of a few cells:     *)
(* next to the ring, inside the plaza, and right above, below and beside it. *)
(* The session then runs on the generated map: frames with the movement keys *)
(* held, which read the map in collide_move.  On the small grids the         *)
(* constructor's spawn_wave finds no cell to sample or no cell far enough    *)
(* from the player, and no frame follows.                                    *)

\* The largest side of a small grid; the frames of a session
MaxSide == 4
MapFrames == 2

MapSizes == ((1 .. MaxSide) \X (1 .. MaxSide)) \cup {<<MAP_W, MAP_H>>}

FillCells == {<<1, 1>>, <<24, 15>>, <<24, 9>>, <<24, 21>>, <<16, 15>>}

\* The draws can come below 0.06 in interior cells only
Fills(w, h) == SUBSET { c \in FillCells : c[1] < w - 1 /\ c[2] < h - 1 }

\* lines 65-67: the map before generate()
BlankMap(w, h) ==
    [w |-> w, h |-> h, grid |-> [y \in 0 .. h - 1 |-> [x \in 0 .. w - 1 |-> 0]],
     wall_rects |-> <<>>]

Generated == log.op # "init"

InitMap ==
    \E size \in MapSizes :
        \E g \in {NewGameOn(BlankMap(size[1], size[2]))} :
            Start(g, NewLog("init", g))

\* self.generate() and the rest of Game.__init__
MapGenerate ==
    /\ ~Generated
    /\ \E fill \in Fills(map.w, map.h) :
          \E g \in {spawn_wave(NewGameOn(TileMap(map.w, map.h, fill)),
                                 CHOOSE d \in DrawChoices(1) : TRUE)} :
             /\ map' = g.map
             /\ enemies' = g.enemies
             /\ wave' = g.wave
             /\ log' = [NewLog("generate", g) EXCEPT
                            !.atcheck = 0, !.wave0 = 0,
                            !.sampling = Sampling(g.map, g.player.pos)]
    /\ UNCHANGED <<player, camera, bullets, particles, score, game_over, paused,
                   fullscreen, credit, frames, events>>

MapFrame ==
    /\ Generated
    /\ frames < MapFrames
    /\ FrameStep({Quiet} \cup MoveInputs)
    /\ frames' = frames + 1
    /\ UNCHANGED <<paused, fullscreen, events>>

NextMap ==
    \/ MapGenerate
    \/ MapFrame

SpecMap == InitMap /\ [][NextMap]_vars

------------------------------------------------------------------------------
(* Walking into a wall: the session on a map whose random fill left two      *)
(* blocks in a staircase east of the plaza, (32, 14) and (33, 15), or one    *)
(* column further east, with the D key held in every frame.  The player's    *)
(* rectangle spans rows 14 and 15.                                           *)
(* clock.tick returns the real time since the last frame, so a frame can be  *)
(* long; a long frame is taken when the player is within a tile of a wall.   *)

\* The long frames of a session
MoveHitches == 1

\* A frame time of a stalled frame, in milliseconds
HitchDt == 200

MoveFills == { {<<32, 14>>, <<33, 15>>}, {<<33, 14>>, <<34, 15>>} }

InitMove ==
    \E fill \in MoveFills : \E g \in {Constructed(fill)} :
        Start(g, [NewLog("init", g) EXCEPT !.atcheck = 0, !.wave0 = 0])

NearWall ==
    rect_collide(map, [x |-> player.rect.x - TILE, y |-> player.rect.y - TILE,
                       w |-> player.rect.w + 2 * TILE,
                       h |-> player.rect.h + 2 * TILE]) # <<>>

MoveFrame ==
    /\ FrameStep({ [Quiet EXCEPT !.keys = {"d"}] })
    /\ UNCHANGED <<paused, fullscreen, events, frames>>

HitchFrame ==
    /\ NearWall
    /\ frames < MoveHitches
    /\ FrameStep({ [Quiet EXCEPT !.keys = {"d"}, !.dt = HitchDt] })
    /\ frames' = frames + 1
    /\ UNCHANGED <<paused, fullscreen, events>>

NextMove ==
    \/ MoveFrame
    \/ HitchFrame

SpecMove == InitMove /\ [][NextMove]_vars

------------------------------------------------------------------------------
(* Spawning a wave wherever the player stands: a session in wave 1 with one  *)
(* enemy left, one hit from destruction, on a map whose random fill left     *)
(* every cell outside the plaza solid, or none.  The player walks from the   *)
(* start in one of the eight directions, dashes when a wall is within a tile *)
(* (into it or past it), and in some frame the held button's bullet destroys *)
(* the enemy, so that frame's wave check calls spawn_wave.                   *)

\* The dashes of a session and the frames after a dash
SpawnEvents == 1
SpawnFrames == 3

AllFill == (1 .. MAP_W - 2) \X (1 .. MAP_H - 2)

SpawnFills == {AllFill, {}}

InitSpawn ==
    \E fill \in SpawnFills :
        \E g \in {LastOfWave(fill, 1, TRUE)} :
            Start(g, NewLog("init", g))

Directions ==
    { {"d"}, {"a"}, {"s"}, {"w"}, {"d", "s"}, {"d", "w"}, {"a", "s"}, {"a", "w"} }

\* The keys stay as they were pressed at the start
KeysHeld == { k \in Directions : player.vel = FZero2 \/ PlayerInput(player, k).vel = player.vel }

SpawnInputs ==
    { [Quiet EXCEPT !.keys = k] : k \in KeysHeld }
    \cup { [Quiet EXCEPT !.keys = k, !.held = TRUE, !.ovk = 1, !.ovt = 1] : k \in KeysHeld }

SpawnFrame ==
    /\ Len(enemies) = 1
    /\ events > 0 => frames < SpawnFrames
    /\ FrameStep(SpawnInputs)
    /\ frames' = IF events > 0 THEN frames + 1 ELSE frames
    /\ UNCHANGED <<paused, fullscreen, events>>

SpawnKeySpace == Len(enemies) = 1 /\ NearWall /\ events < SpawnEvents /\ OnSpace

NextSpawn ==
    \/ SpawnFrame
    \/ SpawnKeySpace

SpecSpawn == InitSpawn /\ [][NextSpawn]_vars

------------------------------------------------------------------------------
(* Firing and switching: the session of Init with a few shots, by the mouse  *)
(* button going down or by the button held in a frame, and Q events between  *)
(* them.  Every bullet meets a wall in the frame after its shot.             *)

\* The shots and the events of a session
FireShots == 2
FireEvents == 2

ShotsFired ==
    (mag["rifle"] - player.ammo["rifle"]) + (mag["shotgun"] - player.ammo["shotgun"])

FireInputs ==
    { [Quiet EXCEPT !.wall = 6] }
    \cup (IF ShotsFired < FireShots
          THEN { [Quiet EXCEPT !.held = TRUE, !.wall = 6] } ELSE {})

FireFrame ==
    /\ FrameStep(FireInputs)
    /\ UNCHANGED <<paused, fullscreen, events, frames>>

FireMouseDown == ShotsFired < FireShots /\ events < FireEvents /\ OnMouseDown

FireKeyQ == events < FireEvents /\ OnQ

NextFire ==
    \/ FireFrame
    \/ FireMouseDown
    \/ FireKeyQ

SpecFire == Init /\ [][NextFire]_vars

------------------------------------------------------------------------------
(* Clearing a wave: the session of Init with the mouse button held in every  *)
(* frame, so the rifle fires as fast as its cooldown allows until the        *)
(* magazine is empty.  The bullet of a shot meets the first enemy of the     *)
(* group in the frame it is fired, or it meets a wall in that frame.         *)

ClearInputs ==
    { [Quiet EXCEPT !.held = TRUE, !.wall = 1],
      [Quiet EXCEPT !.held = TRUE, !.ovk = 1, !.ovt = 1] }

ClearFrame ==
    /\ FrameStep(ClearInputs)
    /\ UNCHANGED <<paused, fullscreen, events, frames>>

NextClear == ClearFrame

SpecClear == Init /\ [][NextClear]_vars

------------------------------------------------------------------------------
(* Claims *)

\* C1: score always equals the sum of 10 * tier over the enemies destroyed so
\* far: each enemy is credited exactly once, also when several projectiles
\* overlap it in the frame it dies.
C1_ScoreCreditsEachEnemyOnce == score = credit

\* C2: in bullet vs enemy, a projectile that overlaps one or more enemies
\* (two or more included) reduces the hit points of exactly one of them, by
\* 20, and leaves the projectile group; one that overlaps none damages none;
\* so no projectile damages more than one enemy in its lifetime.
SumSeq(q) ==
    LET RECURSIVE Sum(_)
        Sum(k) == IF k = 0 THEN 0 ELSE q[k] + Sum(k - 1)
    IN  Sum(Len(q))

C2_OneEnemyPerProjectile ==
    /\ \A j \in DOMAIN log.hits :
          /\ log.hits[j].ov # {} => log.hits[j].dmg = 1 /\ log.hits[j].gone
          /\ log.hits[j].ov = {} => log.hits[j].dmg = 0 /\ ~log.hits[j].gone
    /\ SumSeq(log.lost) = 20 * SumSeq([j \in DOMAIN log.hits |-> log.hits[j].dmg])

C2_Witness ==
    /\ log.op = "frame"
    /\ \E j \in DOMAIN log.hits : Cardinality(log.hits[j].ov) >= 2
    /\ Len(log.lost) >= 2 /\ log.lost[1] = 20 /\ log.lost[2] = 0

\* C3: a shoot call with ammo > 0, fire_cd = 0 and reload_time = 0 creates 1
\* projectile (rifle) or 6 (shotgun), takes exactly 1 round from the active
\* weapon's magazine, leaves the other magazine alone and sets fire_cd > 0.
Other(w) == IF w = "rifle" THEN "shotgun" ELSE "rifle"

CanFire(m) == m.ammo[m.weapon] > 0 /\ m.fire_cd = 0 /\ m.reload_time = 0

C3_ShootEffect ==
    log.called /\ CanFire(log.mid) =>
        /\ log.post.nb = log.mid.nb + (IF log.mid.weapon = "rifle" THEN 1 ELSE 6)
        /\ log.post.ammo[log.mid.weapon] = log.mid.ammo[log.mid.weapon] - 1
        /\ log.post.ammo[Other(log.mid.weapon)] = log.mid.ammo[Other(log.mid.weapon)]
        /\ log.post.weapon = log.mid.weapon
        /\ log.post.fire_cd > 0

C3_Witness ==
    /\ log.called /\ CanFire(log.mid)
    /\ log.mid.weapon = "shotgun"
    /\ log.post.nb = log.mid.nb + 6
    /\ player.ammo["shotgun"] = mag["shotgun"] - 1

\* C4: a reload started (R while running) with a magazine below capacity
\* leaves reload_time > 0; a shoot call made while reload_time > 0 creates no
\* bullet and takes no round; in the frame in which update_cooldowns brings
\* reload_time from above 0 to 0 the active weapon's magazine equals its
\* capacity, and a shoot call in that frame or later, made with
\* reload_time = 0, fire_cd = 0 and rounds in the magazine, creates bullets.
C4_ReloadCycle ==
    /\ log.op = "r" /\ Running /\ log.pre.ammo[log.pre.weapon] < mag[log.pre.weapon]
          => log.post.reload_time > 0
    /\ log.called /\ log.mid.reload_time > 0
          => log.post.nb = log.mid.nb /\ log.post.ammo = log.mid.ammo
    /\ log.ran /\ log.pre.reload_time > 0 /\ log.mid.reload_time = 0
          => /\ log.mid.ammo[log.mid.weapon] = mag[log.mid.weapon]
             /\ log.called /\ log.mid.fire_cd = 0 => log.post.nb > log.mid.nb
    /\ log.called /\ CanFire(log.mid) => log.post.nb > log.mid.nb

C4_Witness ==
    /\ log.ran /\ log.called
    /\ log.pre.reload_time = 1 /\ log.pre.ammo[log.pre.weapon] < mag[log.pre.weapon]
    /\ log.mid.reload_time = 0 /\ log.mid.ammo[log.mid.weapon] = mag[log.mid.weapon]
    /\ log.post.nb > log.mid.nb
    /\ player.ammo[player.weapon] = mag[player.weapon] - 1

\* C5: Player.damage called while invuln > 0 leaves hp and invuln unchanged;
\* called while invuln = 0 it takes the amount (12) from hp and sets invuln
\* to 25; this holds for every call of the enemy loop of a frame.
C5_DamageRespectsInvuln ==
    \A k \in DOMAIN log.damage :
        LET c == log.damage[k]
        IN  /\ c.inv0 > 0 => c.hp1 = c.hp0 /\ c.inv1 = c.inv0
            /\ c.inv0 = 0 => c.hp1 = c.hp0 - 12 /\ c.inv1 = 25

C5_Witness ==
    /\ Len(log.damage) >= 2
    /\ log.damage[1].inv0 = 0
    /\ log.damage[2].inv0 > 0
    /\ player.hp = PlayerMaxHp - 12

\* C6: a frame whose simulation branch ran has raised the wave counter, by
\* exactly 1, if and only if no enemy was live at its wave check, and then
\* the group holds the new batch only; so at least one enemy is live after
\* every frame that ran, and the frame that finds all 8 enemies of wave 1
\* destroyed makes wave 2 with a batch of 10 new enemies.
FreshBatch(w) ==
    /\ Len(enemies) = 6 + 2 * w
    /\ \A i \in DOMAIN enemies :
          enemies[i].id = w * 100 + i /\ enemies[i].hp = Enemy(enemies[i].tier, 0).hp

C6_WaveWhenCleared ==
    /\ log.op = "frame" /\ log.ran =>
          /\ log.atcheck = 0 => wave = log.wave0 + 1 /\ FreshBatch(wave)
          /\ log.atcheck > 0 => wave = log.wave0 /\ Len(enemies) = log.atcheck
          /\ Len(enemies) >= 1
    /\ wave = 1 => \A i \in DOMAIN enemies : enemies[i].id \div 100 = 1
    /\ log.op = "frame" /\ log.ran /\ log.wave0 = 1 /\ log.atcheck = 0 =>
          wave = 2 /\ Len(enemies) = 10 /\ credit = 80

C6_Witness ==
    /\ log.op = "frame" /\ log.ran /\ log.wave0 = 1 /\ log.atcheck = 0
    /\ wave = 2 /\ Len(enemies) = 10 /\ credit = 80
    /\ player.ammo["rifle"] <= mag["rifle"] - 16

\* C7: the call of spawn_wave that makes the wave counter N (the N-th call:
\* the counter starts at 0 and each call adds 1 before the batch) adds
\* exactly 6 + 2N enemies, all new, to those the group held at the call.
C7_BatchSize ==
    wave # log.wave0 =>
        /\ wave = log.wave0 + 1
        /\ Len(enemies) = log.atcheck + 6 + 2 * wave
        /\ Cardinality({ enemies[i].id : i \in DOMAIN enemies } \cap
                        (wave * 100 + 1 .. wave * 100 + 99)) = 6 + 2 * wave

C7_Witness ==
    /\ log.op = "frame" /\ log.ran
    /\ log.wave0 = 3 /\ wave = 4 /\ log.atcheck = 0
    /\ Len(enemies) = 14

\* C8: every enemy spawned in wave 1 or 2 has tier 1, every enemy spawned in
\* wave 3 or later has tier 2 or 3, and no step changes the tier of an enemy
\* that stays in the group (id: the enemy's identity, 100 * wave + rank).
C8_TierFixedByWave ==
    /\ [](\A i \in DOMAIN enemies :
            /\ enemies[i].id \div 100 < 3 => enemies[i].tier = 1
            /\ enemies[i].id \div 100 >= 3 => enemies[i].tier \in {2, 3})
    /\ [][\A i \in DOMAIN enemies : \A j \in DOMAIN enemies' :
            enemies[i].id = enemies'[j].id => enemies'[j].tier = enemies[i].tier]_vars

C8_Witness ==
    /\ wave >= 3
    /\ \E i \in DOMAIN enemies :
          /\ enemies[i].id \div 100 = wave
          /\ enemies[i].tier = 2
          /\ enemies[i].hp < Enemy(2, 0).hp
    /\ \E j \in DOMAIN enemies : enemies[j].tier = 3

\* C9: while paused is true no handler changes the simulation state: the
\* player, the enemy, projectile and particle groups, wave, score, game_over
\* and the camera stay as they are; only paused and fullscreen may change.
SimState == <<map, player, camera, enemies, bullets, particles, wave, score, game_over>>

C9_PauseFreezes == [][paused => SimState' = SimState]_vars

C9_Witness ==
    /\ paused
    /\ bullets # <<>>
    /\ camera.shake_frames > 0
    /\ NumParticles(particles) > 0
    /\ events < MaxEvents
    /\ frames < MaxFrames

\* C10: after every frame whose simulation branch ran, game_over is true
\* if and only if the player's hp is <= 0; once game_over is true it stays
\* true, and no event (dash, reload, weapon switch, fire) and no frame,
\* whatever keys are held, changes any field of the player.
C10_DefeatIsFinal ==
    /\ [](log.op = "frame" /\ log.ran => (game_over <=> player.hp <= 0))
    /\ [][game_over => game_over' /\ player' = player]_vars

C10_Witness ==
    /\ game_over /\ player.hp <= 0
    /\ log.op = "r"
    /\ player.ammo[player.weapon] < mag[player.weapon]
    /\ player.reload_time = 0

\* C11: a rejected action changes nothing.  A fire event with an empty
\* magazine, fire_cd > 0 or reload_time > 0, a reload event with a full
\* magazine or reload_time > 0, and a dash event with zero velocity or
\* dash_cd > 0 leave the whole simulation state as it was (player, camera,
\* bullets, particles and the rest); a shoot call made by a frame's
\* held-button check in one of the three cases creates no bullet and leaves
\* the weapon, both magazines, fire_cd and reload_time as they were.
C11_RejectedActionsChangeNothing ==
    /\ [](log.called /\ ~CanFire(log.mid) => log.post = log.mid)
    /\ [][ /\ events' = events + 1
           /\ \/ log'.op = "mousedown" /\ ~CanFire(Summary(Game))
              \/ /\ log'.op = "r"
                 /\ \/ player.reload_time > 0
                    \/ player.ammo[player.weapon] >= mag[player.weapon]
              \/ /\ log'.op = "space"
                 /\ player.dash_cd > 0 \/ player.vel = FZero2
           => SimState' = SimState ]_vars

C11_Witness ==
    /\ log.op = "mousedown" /\ log.called
    /\ log.mid.ammo[log.mid.weapon] = 0
    /\ log.mid.fire_cd = 0 /\ log.mid.reload_time = 0
    /\ log.post = log.mid

\* C12: in every reachable state the rifle's and the shotgun's magazine
\* hold between 0 rounds and the weapon's capacity (30, 8), whatever the
\* order of fire, reload, weapon switch and frames; so do they inside a
\* frame, after update_cooldowns and after the held button's shoot call.
C12_AmmoWithinCapacity ==
    \A w \in Weapons :
        /\ player.ammo[w] >= 0 /\ player.ammo[w] <= mag[w]
        /\ log.mid.ammo[w] >= 0 /\ log.mid.ammo[w] <= mag[w]
        /\ log.post.ammo[w] >= 0 /\ log.post.ammo[w] <= mag[w]

C12_Witness ==
    /\ log.op = "frame" /\ log.ran /\ log.called
    /\ log.pre.ammo["rifle"] = 0 /\ log.pre.reload_time = 1
    /\ log.mid.ammo["rifle"] = mag["rifle"]
    /\ player.ammo["rifle"] = mag["rifle"] - 1

\* C13: in a generated map, whatever the grid's size and the random fill,
\* every cell of the outer ring (x in {0, w-1} or y in {0, h-1}) is solid,
\* and no step of the session changes the generated map.
C13_RingSolidMapFixed ==
    /\ [](Generated =>
            \A y \in 0 .. map.h - 1 : \A x \in 0 .. map.w - 1 :
                x \in {0, map.w - 1} \/ y \in {0, map.h - 1} => map.grid[y][x] = 1)
    /\ [][Generated => map' = map]_vars

C13_Witness ==
    /\ Generated /\ frames = MapFrames
    /\ map.w = MAP_W /\ map.h = MAP_H
    /\ map.grid[1][1] = 1 /\ map.grid[9][24] = 1
    /\ player.vel # FZero2

\* C14 as claimed: on the generated 48 x 30 map the centred region of 15
\* columns by 13 rows (columns 17..31, rows 9..21) is fully open.
C14_PlazaFifteenByThirteen ==
    Generated /\ map.w = MAP_W /\ map.h = MAP_H =>
        \A y \in 9 .. 21 : \A x \in 17 .. 31 : map.grid[y][x] = 0

\* C14, amended: on the generated 48 x 30 map, whatever the random fill, the
\* centred region of 15 columns by 11 rows (columns 17..31, rows 10..20) is
\* fully open.
C14_PlazaFifteenByEleven ==
    Generated /\ map.w = MAP_W /\ map.h = MAP_H =>
        \A y \in 10 .. 20 : \A x \in 17 .. 31 : map.grid[y][x] = 0

C14_Witness ==
    /\ Generated /\ map.w = MAP_W /\ map.h = MAP_H
    /\ map.grid[9][24] = 1 /\ map.grid[21][24] = 1 /\ map.grid[15][16] = 1
    /\ map.grid[10][24] = 0 /\ map.grid[20][24] = 0 /\ map.grid[15][17] = 0

\* C15: an entity that starts a tick overlapping no wall and moves along one
\* axis into a wall ends the tick with its leading edge on the trailing edge
\* of every wall it ran into, overlapping no wall, its velocity as set by the
\* input.
C15Axis == IF player'.vel[1] # FZero THEN 1 ELSE 2

C15Meant ==
    LET i == C15Axis
        c == FTrunc(FAdd(player.pos[i], FMul(player'.vel[i], FDivInt(log'.dt, 1000))))
    IN  IF i = 1 THEN SetCenterX(player.rect, c) ELSE SetCenterY(player.rect, c)

C15Flush(wr) ==
    IF FSign(player'.vel[1]) > 0 THEN player'.rect.x + player'.rect.w = wr.x
    ELSE IF FSign(player'.vel[1]) < 0 THEN player'.rect.x = wr.x + wr.w
    ELSE IF FSign(player'.vel[2]) > 0 THEN player'.rect.y + player'.rect.h = wr.y
    ELSE player'.rect.y = wr.y + wr.h

C15_FlushAgainstWall ==
    [][ /\ log'.op = "frame" /\ log'.ran
        /\ rect_collide(map, player.rect) = <<>>
        /\ (player'.vel[1] = FZero) # (player'.vel[2] = FZero)
        => \A meant \in {C15Meant} : \A hits \in {rect_collide(map, meant)} :
             hits # <<>>
             => /\ \A k \in 1 .. Len(hits) : C15Flush(hits[k])
                /\ rect_collide(map, player'.rect) = <<>>
                /\ player'.vel[C15Axis] \in
                       {FInt(PlayerSpeed), FInt(0 - PlayerSpeed)} ]_vars

\* C16: two successive successful shots are at least the cooldown of the
\* weapon fired first apart, counted in iterations of the loop (7 for the
\* rifle, 40 for the shotgun), by the button going down or by the held button.
C16_FireRateLimited ==
    [][ Fired(log') /\ log.lastw # "none"
        => log.age >= FireCooldown(log.lastw) ]_vars

\* C17: the fire cooldown is per weapon: a shoot call with rounds in the active
\* weapon's magazine and no reload running creates bullets whenever a timer
\* of the active weapon alone would be at 0, whatever the other weapon fired.
C17OwnAtCall ==
    IF log'.op = "frame" THEN Max(0, log.own[log'.mid.weapon] - 1)
    ELSE log.own[log'.mid.weapon]

C17_CooldownPerWeapon ==
    [][ /\ log'.called
        /\ log'.mid.reload_time = 0
        /\ log'.mid.ammo[log'.mid.weapon] > 0
        /\ C17OwnAtCall = 0
        => Fired(log') ]_vars

\* C18: a magazine rises to capacity only in the frame that ends a reload
\* requested while that weapon was active, after that weapon's duration (48
\* frames for the rifle, 72 for the shotgun), weapon switches included.
C18Duration(w) == IF w = "rifle" THEN 48 ELSE 72

C18_RefillByOwnReload ==
    [][ \A w \in Weapons :
          log'.ran /\ log'.pre.ammo[w] < mag[w] /\ log'.mid.ammo[w] = mag[w]
          => log.rw = w /\ log.rticks + 1 = C18Duration(w) ]_vars

\* C19: with enemies overlapping the player frame after frame, hp goes down
\* by at most 12 in one frame, and two frames in which hp goes down are at
\* least 25 frames apart.
C19_ContactDamageRateLimited ==
    [][ player'.hp < player.hp
        => /\ player.hp - player'.hp <= 12
           /\ log.hurt => log.dage + 1 >= 25 ]_vars

C19_Witness ==
    /\ log.op = "frame" /\ Len(log.damage) >= 2
    /\ log.damage[1].hp1 < log.damage[1].hp0
    /\ log.gap = 25
    /\ player.hp = PlayerMaxHp - 24

\* C20: a camera shake armed with n frames and not armed again is over after
\* n frames of the loop: the frame counter is 0 and the transform adds no
\* jitter, also when the frame that armed it defeated the player and when the
\* game is paused after it.
C20_ShakeEnds ==
    log.sarm > 0 /\ log.sage >= log.sarm
        => camera.shake_frames = 0 /\ JitterBound(camera) = 0

\* C21: whenever a frame's wave check calls spawn_wave, on every generated
\* 48x30 map and wherever the player stands (after a dash into or past a
\* wall too), the rejection sampling has a cell to accept, an open interior
\* cell whose centre is more than 380 pixels from the player, and the call
\* ends.
C21_SpawnCanSucceed ==
    log.op = "frame" /\ log.ran /\ log.atcheck = 0
        => (\E c \in SpawnCells(map, player.pos) : TRUE) /\ log.sampling = "done"

C21_Witness ==
    /\ log.op = "frame" /\ log.ran /\ log.atcheck = 0
    /\ map.grid[1][1] = 1
    /\ player.dash_cd > 0
    /\ rect_collide(map, player.rect) # <<>>
    /\ \E c \in SpawnCells(map, player.pos) : TRUE

\* C22: every enemy of every tier is spawned with its bounding rectangle
\* overlapping no solid rectangle: in a frame whose wave check called
\* spawn_wave, whichever accepted cell the sampling gives an enemy of the
\* new wave, the rectangle of that enemy at the cell centre meets no wall
\* rectangle of the map.
C22_SpawnedClearOfWalls ==
    log.op = "frame" /\ log.ran /\ log.atcheck = 0
        => \A c \in SpawnCells(map, player.pos) : \A i \in 1 .. Len(enemies) :
              rect_collide(map, SpawnRect(c, enemies[i].tier)) = <<>>

====
